---- MODULE Spec2Model ----
(***************************************************************************)
(* Model of the HTTP-Client front end: the PaginationManager (pagination.js) *)
(* and the FetchWrapper (fetchWrapper.js).                                   *)
(***************************************************************************)
EXTENDS Integers, Sequences, FiniteSets, TLC

(* ------------------------------ bounds --------------------------------- *)

\* largest item count handed to setTotalItems / largest array given to getPageData
MaxItems == 25

\* largest explicit options.pageSize tried by the constructor (0 = option absent)
MaxPageSizeOpt == 3

(* --------------------------- program constants -------------------------- *)

\* options.pageSize || 10
DefaultPageSize == 10

VARIABLES
  \* PaginationManager fields
  currentPage, pageSize, totalItems, totalPages, onPageChange,
  \* arguments of the onPageChange invocations made by the last operation
  cbLog,
  \* the array returned by the last operation (empty unless it was getPageData)
  pageData,
  \* the last PaginationManager operation and the fields as they were before it
  lastOp, pre,
  \* FetchWrapper.sendRequest: where the pending call stands, how it was
  \* entered, the config handed to fetch, the Response fetch resolved with, the
  \* error raised inside the try block, what the caller gets, and the number of
  \* fetch calls the pending invocation has issued
  pc, via, config, response, thrown, outcome, fetchCalls,
  \* the defaultHeaders of the FetchWrapper instance and the headers option of
  \* the pending call
  defaultHeaders, optHeaders,
  \* the validator function applied last, its arguments and what it returned
  vOp, vArg, vRes,
  \* the controller: the lists kept for client-side pagination and their
  \* managers, what each alert container shows, the async functions suspended
  \* at an await, the last controller step (its validation result and the
  \* requests it issued) and the lists, managers and tasks as they were before it
  healthServicesData, vendorSwitchesData,
  healthServicesPagination, vendorSwitchesPagination,
  alerts, tasks, cOp, cPre,
  \* the number of operations the user has started
  clicks,
  \* the number of auto-hide timers armed on each alert container
  timers

pvars == <<currentPage, pageSize, totalItems, totalPages, onPageChange,
           cbLog, pageData, lastOp, pre>>

fvars == <<pc, via, config, response, thrown, outcome, fetchCalls,
           defaultHeaders, optHeaders>>

vvars == <<vOp, vArg, vRes>>

cvars == <<healthServicesData, vendorSwitchesData, healthServicesPagination,
           vendorSwitchesPagination, alerts, tasks, cOp, cPre, clicks, timers>>

vars == <<pvars, fvars, vvars, cvars>>

(* ------------------------------ helpers --------------------------------- *)

Max(a, b) == IF a >= b THEN a ELSE b

Min(a, b) == IF a <= b THEN a ELSE b

\* Math.ceil(a / b) for a >= 0, b > 0
MathCeilDiv(a, b) == IF a % b = 0 THEN a \div b ELSE (a \div b) + 1

\* Array.prototype.slice(start, end): negative indices count from the end,
\* both are clamped to [0, length], an empty range gives the empty array
ArraySlice(data, start, end) ==
  LET len   == Len(data)
      k     == IF start < 0 THEN Max(len + start, 0) ELSE Min(start, len)
      final == IF end < 0 THEN Max(len + end, 0) ELSE Min(end, len)
  IN  [i \in 1..Max(final - k, 0) |-> data[k + i]]

\* an array of n distinct items; the item at 0-based index i is the number i
Items(n) == [i \in 1..n |-> i - 1]

\* the fields of the manager as one record
Fields == [currentPage |-> currentPage, pageSize |-> pageSize,
           totalItems |-> totalItems, totalPages |-> totalPages,
           onPageChange |-> onPageChange]

(* --------------------------- PaginationManager -------------------------- *)

\* new PaginationManager(options)
PaginationManager(optPageSize, optCallback) ==
  /\ currentPage = 1
  /\ pageSize = (IF optPageSize = 0 THEN DefaultPageSize ELSE optPageSize)
  /\ totalItems = 0
  /\ totalPages = 0
  /\ onPageChange = (IF optCallback = "absent" THEN "noop" ELSE optCallback)

\* nothing has been called on the manager yet
PFresh ==
  /\ cbLog = <<>>
  /\ pageData = <<>>
  /\ lastOp = [name |-> "new", arg |-> 0]
  /\ pre = [currentPage |-> 1, pageSize |-> 0, totalItems |-> 0,
            totalPages |-> 0, onPageChange |-> "absent"]

PInit ==
  /\ \E ps \in 0..MaxPageSizeOpt, cb \in {"absent", "updateDisplay"} :
        PaginationManager(ps, cb)
  /\ PFresh

\* bookkeeping shared by every operation
Observe(name, arg) ==
  /\ lastOp' = [name |-> name, arg |-> arg]
  /\ pre' = Fields

\* the condition under which setTotalItems puts the manager back on page 1
SetTotalItemsResets(cur, pages) == cur > pages /\ pages > 0

setTotalItems(total) ==
  LET pages == MathCeilDiv(total, pageSize)
  IN  /\ totalItems' = total
      /\ totalPages' = pages
      /\ currentPage' = (IF SetTotalItemsResets(currentPage, pages) THEN 1 ELSE currentPage)
      /\ cbLog' = <<>>
      /\ Observe("setTotalItems", total)
      /\ pageData' = <<>>
      /\ UNCHANGED <<pageSize, onPageChange>>

\* a 0-based page number taken for the 1-based one
PageStartIndex_ZeroBased(cur, size) == cur * size

\* var startIndex = (this.currentPage - 1) * this.pageSize
PageStartIndex(cur, size) == (cur - 1) * size

getPageData(n) ==
  LET startIndex == PageStartIndex(currentPage, pageSize)
      endIndex   == startIndex + pageSize
  IN  /\ pageData' = ArraySlice(Items(n), startIndex, endIndex)
      /\ cbLog' = <<>>
      /\ Observe("getPageData", n)
      /\ UNCHANGED <<currentPage, pageSize, totalItems, totalPages, onPageChange>>

\* goToPage without the upper bound check
GoToPageAccepts_NoUpperBound(page, pages) == page >= 1

\* the guard of goToPage
GoToPageAccepts(page, pages) == page >= 1 /\ page <= pages

goToPage(page) ==
  /\ IF GoToPageAccepts(page, totalPages)
       THEN /\ currentPage' = page
            /\ cbLog' = <<page>>
       ELSE /\ currentPage' = currentPage
            /\ cbLog' = <<>>
  /\ Observe("goToPage", page)
  /\ pageData' = <<>>
  /\ UNCHANGED <<pageSize, totalItems, totalPages, onPageChange>>

nextPage ==
  /\ IF currentPage < totalPages
       THEN /\ currentPage' = currentPage + 1
            /\ cbLog' = <<currentPage + 1>>
       ELSE /\ currentPage' = currentPage
            /\ cbLog' = <<>>
  /\ Observe("nextPage", 0)
  /\ pageData' = <<>>
  /\ UNCHANGED <<pageSize, totalItems, totalPages, onPageChange>>

previousPage ==
  /\ IF currentPage > 1
       THEN /\ currentPage' = currentPage - 1
            /\ cbLog' = <<currentPage - 1>>
       ELSE /\ currentPage' = currentPage
            /\ cbLog' = <<>>
  /\ Observe("previousPage", 0)
  /\ pageData' = <<>>
  /\ UNCHANGED <<pageSize, totalItems, totalPages, onPageChange>>

firstPage ==
  /\ IF currentPage # 1
       THEN /\ currentPage' = 1
            /\ cbLog' = <<1>>
       ELSE /\ currentPage' = currentPage
            /\ cbLog' = <<>>
  /\ Observe("firstPage", 0)
  /\ pageData' = <<>>
  /\ UNCHANGED <<pageSize, totalItems, totalPages, onPageChange>>

\* lastPage without the already-there check
LastPageMoves_Always(cur, pages) == TRUE

\* the guard of lastPage
LastPageMoves(cur, pages) == cur # pages

lastPage ==
  /\ IF LastPageMoves(currentPage, totalPages)
       THEN /\ currentPage' = totalPages
            /\ cbLog' = <<totalPages>>
       ELSE /\ currentPage' = currentPage
            /\ cbLog' = <<>>
  /\ Observe("lastPage", 0)
  /\ pageData' = <<>>
  /\ UNCHANGED <<pageSize, totalItems, totalPages, onPageChange>>

\* reset that forgets the page count
reset_KeepsTotalPages ==
  /\ currentPage' = 1
  /\ totalItems' = 0
  /\ cbLog' = <<>>
  /\ Observe("reset", 0)
  /\ pageData' = <<>>
  /\ UNCHANGED <<pageSize, onPageChange, totalPages>>

reset ==
  /\ currentPage' = 1
  /\ totalItems' = 0
  /\ totalPages' = 0
  /\ cbLog' = <<>>
  /\ Observe("reset", 0)
  /\ pageData' = <<>>
  /\ UNCHANGED <<pageSize, onPageChange>>

(* ------------------------------ FetchWrapper ----------------------------- *)

\* String.prototype.includes
StringIncludes(s, sub) ==
  \E i \in 1..(Len(s) - Len(sub) + 1) : SubSeq(s, i, i + Len(sub) - 1) = sub

\* the ways sendRequest is entered: directly or through a verb method
Verbs == {"sendRequest", "get", "post", "put", "delete", "patch"}

\* the options a verb method forwards: { ...options, method, body }
VerbOptions(verb) ==
  [method |-> CASE verb = "get"    -> "GET"
                [] verb = "post"   -> "POST"
                [] verb = "put"    -> "PUT"
                [] verb = "delete" -> "DELETE"
                [] verb = "patch"  -> "PATCH"
                [] OTHER           -> "default",
   body   |-> verb \in {"post", "put", "patch"}]

\* status codes, status texts and body texts a server answers with
Statuses == {199, 200, 204, 299, 300, 404, 500}

StatusTexts == {"", "Not Found"}

BodyTexts ==
  { "{\"message\":\"not found\"}",
    "{\"error\":\"bad id\"}",
    "{\"message\":\"m\",\"error\":\"e\"}",
    "{\"message\":\"\",\"error\":\"e\"}",
    "{\"message\":\"\",\"error\":\"\"}",
    "{\"id\":\"7\"}",
    "{}", "[]", "null", "<html>", "" }

Responses == [status : Statuses, statusText : StatusTexts, body : BodyTexts]

\* the errors fetch rejects with
FetchRejections ==
  { [name |-> "TypeError", message |-> "Failed to fetch"],
    [name |-> "TypeError", message |-> "NetworkError when attempting to fetch resource."],
    [name |-> "TypeError", message |-> "Load failed"],
    [name |-> "AbortError", message |-> "The user aborted a request."] }

JsonObject(props) == [type |-> "object", props |-> props]

\* response.json(): the parsed value of a body text, or the SyntaxError it rejects with
JsonParse(text) ==
  CASE text = "{\"message\":\"not found\"}" ->
         [ok |-> TRUE, value |-> JsonObject("message" :> "not found")]
    [] text = "{\"error\":\"bad id\"}" ->
         [ok |-> TRUE, value |-> JsonObject("error" :> "bad id")]
    [] text = "{\"message\":\"m\",\"error\":\"e\"}" ->
         [ok |-> TRUE, value |-> JsonObject(("message" :> "m") @@ ("error" :> "e"))]
    [] text = "{\"message\":\"\",\"error\":\"e\"}" ->
         [ok |-> TRUE, value |-> JsonObject(("message" :> "") @@ ("error" :> "e"))]
    [] text = "{\"message\":\"\",\"error\":\"\"}" ->
         [ok |-> TRUE, value |-> JsonObject(("message" :> "") @@ ("error" :> ""))]
    [] text = "{\"id\":\"7\"}" ->
         [ok |-> TRUE, value |-> JsonObject("id" :> "7")]
    [] text = "{}" ->
         [ok |-> TRUE, value |-> JsonObject(<<>>)]
    [] text = "[]" ->
         [ok |-> TRUE, value |-> [type |-> "array"]]
    [] text = "null" ->
         [ok |-> TRUE, value |-> [type |-> "null"]]
    [] text = "" ->
         [ok |-> FALSE,
          error |-> [name |-> "SyntaxError", message |-> "Unexpected end of JSON input"]]
    [] OTHER ->
         [ok |-> FALSE,
          error |-> [name |-> "SyntaxError", message |-> "Unexpected token < in JSON at position 0"]]

\* only 200 taken for success
ResponseOk_Only200(status) == status = 200

\* response.ok
ResponseOk(status) == 200 <= status /\ status <= 299

\* if (value[key]) for a parsed value: a non-empty string property is truthy
Truthy(value, key) ==
  /\ value.type = "object"
  /\ key \in DOMAIN value.props
  /\ value.props[key] # ""

\* the error field preferred over the message field
ErrorMessage_ErrorFirst(resp) ==
  LET default   == "HTTP Error: " \o ToString(resp.status) \o " " \o resp.statusText
      errorData == JsonParse(resp.body)
  IN  IF ~errorData.ok THEN default
      ELSE IF errorData.value.type = "null" THEN default
      ELSE IF Truthy(errorData.value, "error") THEN errorData.value.props["error"]
      ELSE IF Truthy(errorData.value, "message") THEN errorData.value.props["message"]
      ELSE default

\* the message of the CustomError built for a non-ok response
ErrorMessage(resp) ==
  LET default   == "HTTP Error: " \o ToString(resp.status) \o " " \o resp.statusText
      errorData == JsonParse(resp.body)
  IN  IF ~errorData.ok THEN default                               \* catch (parseError)
      ELSE IF errorData.value.type = "null" THEN default           \* property read throws, same catch
      ELSE IF Truthy(errorData.value, "message") THEN errorData.value.props["message"]
      ELSE IF Truthy(errorData.value, "error") THEN errorData.value.props["error"]
      ELSE default

\* new CustomError(status, statusText, message)
CustomError(status, statusText, message) ==
  [name |-> "CustomError", status |-> status, statusText |-> statusText,
   message |-> message]

\* new NetworkError(message)
NetworkError(message) == [name |-> "NetworkError", message |-> message]

NetworkErrorText == "Network error: Unable to reach the server. Please check your connection."

\* a catch block without the instanceof CustomError test
CatchBlock_ReclassifiesAll(error) ==
  IF error.name = "TypeError" /\ StringIncludes(error.message, "fetch")
    THEN NetworkError(NetworkErrorText)
  ELSE NetworkError("Request failed: " \o error.message)

\* the catch block of sendRequest: the error the caller receives for an error
\* raised inside the try block
CatchBlock(error) ==
  IF error.name = "CustomError" THEN error
  ELSE IF error.name = "TypeError" /\ StringIncludes(error.message, "fetch")
    THEN NetworkError(NetworkErrorText)
  ELSE NetworkError("Request failed: " \o error.message)

\* the headers sendRequest starts from
BuiltinHeaders ==
  ("Content-Type" :> "application/json") @@ ("Accept" :> "application/json")

\* header objects given to the FetchWrapper constructor (none, the bearer
\* token of wellbeingApi, one that overrides a built-in key)
InstanceHeaderSets ==
  { <<>>,
    "Authorization" :> "Bearer token",
    ("Accept" :> "text/html") @@ ("X-Client" :> "a") }

\* header objects given with one call (options.headers absent or present)
CallHeaderSets ==
  { <<>>,
    "Accept" :> "text/plain",
    ("Content-Type" :> "text/plain") @@ ("X-Client" :> "b"),
    "Authorization" :> "Basic x" }

\* a merge in which the lower level wins
ObjectSpread_FirstWins(lower, higher) ==
  [k \in DOMAIN lower \cup DOMAIN higher |->
     IF k \in DOMAIN lower THEN lower[k] ELSE higher[k]]

\* { ...lower, ...higher }
ObjectSpread(lower, higher) ==
  [k \in DOMAIN lower \cup DOMAIN higher |->
     IF k \in DOMAIN higher THEN higher[k] ELSE lower[k]]

\* the config before any call
NoConfig == [method |-> "none", body |-> FALSE, headers |-> <<>>]

NoResponse == [status |-> 0]

NoError == [name |-> "none"]

Pending == [kind |-> "pending"]

\* new FetchWrapper(baseUrl, defaultHeaders)
FetchWrapper(headers) ==
  /\ pc = "idle"
  /\ via = "none"
  /\ config = NoConfig
  /\ response = NoResponse
  /\ thrown = NoError
  /\ outcome = Pending
  /\ fetchCalls = 0
  /\ defaultHeaders = headers
  /\ optHeaders = <<>>

\* a wrapper constructed with any of the header objects
FInit == \E headers \in InstanceHeaderSets : FetchWrapper(headers)

\* hw1Api: a wrapper without default headers
FPlain == FetchWrapper(<<>>)

\* sendRequest up to its first await: builds the config and calls fetch
SendRequest(verb, headers) ==
  /\ pc = "idle"
  /\ pc' = "awaitFetch"
  /\ via' = verb
  /\ optHeaders' = headers
  /\ config' = [method  |-> VerbOptions(verb).method,
                body    |-> VerbOptions(verb).body,
                headers |-> ObjectSpread(ObjectSpread(BuiltinHeaders, defaultHeaders),
                                         headers)]
  /\ fetchCalls' = fetchCalls + 1
  /\ response' = NoResponse
  /\ thrown' = NoError
  /\ outcome' = Pending
  /\ UNCHANGED defaultHeaders

\* fetch resolves with a Response; both branches go on to await response.json()
FetchResolves(resp) ==
  /\ pc = "awaitFetch"
  /\ pc' = "awaitJson"
  /\ response' = resp
  /\ UNCHANGED <<via, config, thrown, outcome, fetchCalls, defaultHeaders, optHeaders>>

\* a wrapper that calls fetch once more after a rejection
FetchRejects_Retries(error) ==
  /\ pc = "awaitFetch"
  /\ IF fetchCalls < 2
       THEN /\ pc' = "awaitFetch"
            /\ fetchCalls' = fetchCalls + 1
            /\ UNCHANGED <<thrown, outcome>>
       ELSE /\ pc' = "settled"
            /\ thrown' = error
            /\ outcome' = [kind |-> "thrown", error |-> CatchBlock(error)]
            /\ UNCHANGED fetchCalls
  /\ UNCHANGED <<via, config, response, defaultHeaders, optHeaders>>

\* fetch rejects: control enters the catch block
FetchRejects(error) ==
  /\ pc = "awaitFetch"
  /\ pc' = "settled"
  /\ thrown' = error
  /\ outcome' = [kind |-> "thrown", error |-> CatchBlock(error)]
  /\ UNCHANGED <<via, config, response, fetchCalls, defaultHeaders, optHeaders>>

\* response.json() settles: sendRequest runs to its end
JsonSettles ==
  /\ pc = "awaitJson"
  /\ pc' = "settled"
  /\ IF ~ResponseOk(response.status)
       THEN LET error == CustomError(response.status, response.statusText,
                                     ErrorMessage(response))
            IN  /\ thrown' = error
                /\ outcome' = [kind |-> "thrown", error |-> CatchBlock(error)]
       ELSE LET data == JsonParse(response.body)
            IN  IF data.ok
                  THEN /\ thrown' = NoError
                       /\ outcome' = [kind |-> "returned", value |-> data.value]
                  ELSE /\ thrown' = data.error
                       /\ outcome' = [kind |-> "thrown", error |-> CatchBlock(data.error)]
  /\ UNCHANGED <<via, config, response, fetchCalls, defaultHeaders, optHeaders>>

\* the caller takes the result; the wrapper is ready for the next call
CallerResumes ==
  /\ pc = "settled"
  /\ pc' = "idle"
  /\ via' = "none"
  /\ config' = NoConfig
  /\ response' = NoResponse
  /\ thrown' = NoError
  /\ outcome' = Pending
  /\ fetchCalls' = 0
  /\ optHeaders' = <<>>
  /\ UNCHANGED defaultHeaders

(* ------------------------------- Validators ------------------------------ *)

\* bounds of the field rules
MinNameLength == 3

MaxNameLength == 100

MaxRequirementsLength == 500

\* JavaScript values: strings, integers, a non-integer number given by its
\* decimal text, NaN, undefined and null
Str(s) == [t |-> "string", v |-> s]

Num(n) == [t |-> "number", v |-> n]

Float(text) == [t |-> "float", v |-> text]

NaN == [t |-> "nan"]

Undefined == [t |-> "undefined"]

Null == [t |-> "null"]

\* !!value
JsTruthy(value) ==
  CASE value.t = "string" -> value.v # ""
    [] value.t = "number" -> value.v # 0
    [] value.t = "float"  -> TRUE
    [] OTHER              -> FALSE

\* String(value)
JsString(value) ==
  CASE value.t = "string" -> value.v
    [] value.t = "number" -> ToString(value.v)
    [] value.t = "float"  -> value.v
    [] value.t = "nan"    -> "NaN"
    [] value.t = "null"   -> "null"
    [] OTHER              -> "undefined"

\* value.length of a string
JsLength(value) == Len(value.v)

RECURSIVE Repeat(_, _)
\* String.prototype.repeat
Repeat(c, n) ==
  IF n = 0 THEN ""
  ELSE LET half == Repeat(c, n \div 2)
       IN  IF n % 2 = 0 THEN half \o half ELSE half \o half \o c

IsWhiteSpace(c) == c \in {" ", "\t", "\n"}

RECURSIVE TrimStart(_)
TrimStart(s) ==
  IF s = "" THEN ""
  ELSE IF IsWhiteSpace(SubSeq(s, 1, 1)) THEN TrimStart(SubSeq(s, 2, Len(s)))
  ELSE s

RECURSIVE TrimEnd(_)
TrimEnd(s) ==
  IF s = "" THEN ""
  ELSE IF IsWhiteSpace(SubSeq(s, Len(s), Len(s))) THEN TrimEnd(SubSeq(s, 1, Len(s) - 1))
  ELSE s

\* String.prototype.trim
Trim(s) == TrimEnd(TrimStart(s))

Digits == {"0", "1", "2", "3", "4", "5", "6", "7", "8", "9"}

DigitValue(c) ==
  CASE c = "0" -> 0 [] c = "1" -> 1 [] c = "2" -> 2 [] c = "3" -> 3 [] c = "4" -> 4
    [] c = "5" -> 5 [] c = "6" -> 6 [] c = "7" -> 7 [] c = "8" -> 8 [] OTHER -> 9

RECURSIVE LeadingDigits(_, _, _)
\* the value and the count of the decimal digits s starts with
LeadingDigits(s, acc, count) ==
  IF s # "" /\ SubSeq(s, 1, 1) \in Digits
    THEN LeadingDigits(SubSeq(s, 2, Len(s)), acc * 10 + DigitValue(SubSeq(s, 1, 1)), count + 1)
    ELSE [value |-> acc, count |-> count]

\* Number.parseInt(value): String(value) without leading white space, an
\* optional sign, then the longest run of decimal digits; NaN without a digit
ParseInt(value) ==
  LET text   == TrimStart(JsString(value))
      signed == text # "" /\ SubSeq(text, 1, 1) \in {"-", "+"}
      body   == IF signed THEN SubSeq(text, 2, Len(text)) ELSE text
      digits == LeadingDigits(body, 0, 0)
  IN  IF digits.count = 0 THEN NaN
      ELSE IF signed /\ SubSeq(text, 1, 1) = "-" THEN Num(0 - digits.value)
      ELSE Num(digits.value)

ValidServiceTypes == {"child_mental", "prenatal", "adult", "general", "other"}

\* the hospital name part of validateHealthService
HospitalNameErrors(name) ==
  IF ~JsTruthy(name) \/ Trim(name.v) = "" THEN <<"Hospital name is required.">>
  ELSE IF JsLength(name) < MinNameLength
    THEN <<"Hospital name must be at least 3 characters long.">>
  ELSE IF JsLength(name) > MaxNameLength
    THEN <<"Hospital name must not exceed 100 characters.">>
  ELSE <<>>

\* the service type part of validateHealthService
ServiceTypeErrors(type) ==
  IF ~JsTruthy(type) \/ Trim(type.v) = "" THEN <<"Service type is required.">>
  ELSE IF type.v \notin ValidServiceTypes
    THEN <<"Invalid service type. Must be one of: child_mental, prenatal, adult, general, other.">>
  ELSE <<>>

\* the is_free part of validateHealthService
IsFreeErrors(isFree) ==
  IF isFree = Str("") \/ isFree = Undefined \/ isFree = Null
    THEN <<"Cost (free/paid) selection is required.">>
  ELSE IF isFree \notin {Num(0), Num(1), Str("0"), Str("1")}
    THEN <<"Invalid cost selection.">>
  ELSE <<>>

\* the requirements part of validateHealthService
RequirementsErrors(requirements) ==
  IF JsTruthy(requirements) /\ JsLength(requirements) > MaxRequirementsLength
    THEN <<"Requirements must not exceed 500 characters.">>
  ELSE <<>>

\* the { isValid, errors } object every validator returns
ValidationResult(errors) == [isValid |-> Len(errors) = 0, errors |-> errors]

\* a validator that stops at the first field in error
validateHealthService_FailFast(data) ==
  LET name == HospitalNameErrors(data.hospital_name)
      type == ServiceTypeErrors(data.service_type)
      free == IsFreeErrors(data.is_free)
      reqs == RequirementsErrors(data.requirements)
  IN  ValidationResult(IF name # <<>> THEN name
                       ELSE IF type # <<>> THEN type
                       ELSE IF free # <<>> THEN free
                       ELSE reqs)

validateHealthService(data) ==
  ValidationResult(HospitalNameErrors(data.hospital_name)
                   \o ServiceTypeErrors(data.service_type)
                   \o IsFreeErrors(data.is_free)
                   \o RequirementsErrors(data.requirements))

validateId(id, fieldName) ==
  LET label  == IF JsTruthy(fieldName) THEN fieldName.v ELSE "ID"
      parsed == ParseInt(id)
  IN  ValidationResult(
        IF ~JsTruthy(id) \/ id = Str("") THEN <<label \o " is required.">>
        ELSE IF parsed = NaN \/ parsed.v <= 0 THEN <<label \o " must be a positive number.">>
        ELSE <<>>)

validateSportsDbParams(params) ==
  ValidationResult(
    IF /\ (~JsTruthy(params.sport) \/ Trim(params.sport.v) = "")
       /\ (~JsTruthy(params.country) \/ Trim(params.country.v) = "")
      THEN <<"Please provide at least a sport or country filter.">>
      ELSE <<>>)

\* a sanitizer that keeps truthy values only
SanitizeKeeps_Truthy(value) == JsTruthy(value)

\* value !== null && value !== undefined && value !== ""
SanitizeKeeps(value) == value # Null /\ value # Undefined /\ value # Str("")

sanitizeFilters(filters) ==
  [key \in {k \in DOMAIN filters : SanitizeKeeps(filters[k])} |->
     Trim(JsString(filters[key]))]

(* inputs tried *)

\* widest run of blanks put before a hospital name
MaxPad == 1

Pads == {Repeat(" ", n) : n \in 0..MaxPad}

\* hospital names: blank-padded runs of letters around the length bounds, and
\* the names of the documented examples
NameCoreLengths ==
  {0, 1, MinNameLength - 1, MinNameLength, MaxNameLength - 2, MaxNameLength - 1,
   MaxNameLength, MaxNameLength + 1}

HospitalNames ==
  {Undefined, Str("AB"), Str("St. Luke's")}
    \cup {Str(l \o Repeat("x", n) \o r) : l \in Pads, r \in {"", " "}, n \in NameCoreLengths}

ServiceTypes ==
  {Undefined, Str(""), Str(" "), Str("general"), Str("other"), Str("xyz"), Str(" adult")}

IsFreeValues ==
  {Undefined, Null, Str(""), Str("0"), Str("1"), Num(0), Num(1), Num(2), Str("yes"), NaN}

RequirementsValues ==
  {Undefined, Str(""), Str("referral"), Str(Repeat("r", MaxRequirementsLength)),
   Str(Repeat("r", MaxRequirementsLength + 1))}

HealthServiceRecords ==
  [hospital_name : HospitalNames, service_type : ServiceTypes,
   is_free : IsFreeValues, requirements : RequirementsValues]

IdValues ==
  {Undefined, Null, Str(""), Num(0), Num(7), Num(0 - 3), Float("1.5"), Float("0.5"),
   Str("7"), Str("42"), Str("0"), Str("-3"), Str("abc"), Str("12abc"), Str("1.5"),
   Str(" 7"), Str("007")}

FieldNames == {Undefined, Str("Vendor ID"), Str("Service ID")}

SearchTexts == {Undefined, Str(""), Str("  "), Str("Soccer"), Str(" France ")}

FilterValues ==
  {Undefined, Null, Str(""), Str(" x "), Str("   "), Str("general"), Num(0), Num(1)}

FilterObjects == [{"a", "b", "c"} -> FilterValues]

\* no validator call is pending
VInit ==
  /\ vOp = "none"
  /\ vArg = <<>>
  /\ vRes = <<>>

\* the calls tried: a validator function and its arguments
ValidatorCalls ==
  [fn : {"validateHealthService"}, arg : HealthServiceRecords]
    \cup [fn : {"validateId"}, arg : [id : IdValues, fieldName : FieldNames]]
    \cup [fn : {"validateSportsDbParams"}, arg : [sport : SearchTexts, country : SearchTexts]]
    \cup [fn : {"sanitizeFilters"}, arg : FilterObjects]

\* a call about to be made
VCall ==
  /\ vOp = "call"
  /\ vArg \in ValidatorCalls
  /\ vRes = <<>>

ValidateHealthService ==
  /\ vOp = "call" /\ vArg.fn = "validateHealthService"
  /\ vOp' = "validateHealthService"
  /\ vRes' = validateHealthService(vArg.arg)
  /\ UNCHANGED vArg

ValidateId ==
  /\ vOp = "call" /\ vArg.fn = "validateId"
  /\ vOp' = "validateId"
  /\ vRes' = validateId(vArg.arg.id, vArg.arg.fieldName)
  /\ UNCHANGED vArg

ValidateSportsDbParams ==
  /\ vOp = "call" /\ vArg.fn = "validateSportsDbParams"
  /\ vOp' = "validateSportsDbParams"
  /\ vRes' = validateSportsDbParams(vArg.arg)
  /\ UNCHANGED vArg

SanitizeFilters ==
  /\ vOp = "call" /\ vArg.fn = "sanitizeFilters"
  /\ vOp' = "sanitizeFilters"
  /\ vRes' = sanitizeFilters(vArg.arg)
  /\ UNCHANGED vArg

(* ------------------------------ controller ------------------------------ *)

\* most operations the user starts in one run of the page
MaxClicks == 2

\* most requests the controller awaits at a time
MaxInFlight == 2

\* largest page count a list response announces
MaxPages == 2

\* CONFIG.PAGINATION.DEFAULT_PAGE_SIZE
DEFAULT_PAGE_SIZE == 10

\* new PaginationManager({ pageSize: DEFAULT_PAGE_SIZE, onPageChange: ... }),
\* as a value; totalItems and totalPages hold what setTotalItems computed
Manager ==
  [currentPage |-> 1,
   pageSize |-> (IF DEFAULT_PAGE_SIZE = 0 THEN DefaultPageSize ELSE DEFAULT_PAGE_SIZE),
   totalItems |-> Num(0), totalPages |-> Num(0)]

\* an array value
Arr(elements) == [t |-> "array", v |-> elements]

\* value.length; undefined on an object without that property
JsArrayLength(value) == IF value.t = "array" THEN Num(Len(value.v)) ELSE Undefined

\* manager.setTotalItems(total) on a manager value; Math.ceil(undefined / n)
\* is NaN, and currentPage > NaN is false
SetTotalItemsOf(manager, total) ==
  IF total = Undefined
    THEN [manager EXCEPT !.totalItems = Undefined, !.totalPages = NaN]
    ELSE LET pages == MathCeilDiv(total.v, manager.pageSize)
         IN  [manager EXCEPT
                !.totalItems = total,
                !.totalPages = Num(pages),
                !.currentPage = IF SetTotalItemsResets(manager.currentPage, pages)
                                  THEN 1 ELSE manager.currentPage]

\* setTotalItems(list.length) followed by currentPage = 1
PaginateList(manager, list) ==
  [SetTotalItemsOf(manager, JsArrayLength(list)) EXCEPT !.currentPage = 1]

AlertContainers ==
  {"createModalAlert", "editModalAlert", "healthServicesAlert",
   "vendorSwitchesAlert", "sportsDbAlert"}

\* an alert container with class d-none and no content
Hidden == [kind |-> "hidden"]

showAlert(shown, containerId, message, type) ==
  [shown EXCEPT ![containerId] = [kind |-> "alert", message |-> message, type |-> type]]

showErrorList(shown, containerId, errors) ==
  [shown EXCEPT ![containerId] = [kind |-> "errors", errors |-> errors]]

hideAlert(shown, containerId) == [shown EXCEPT ![containerId] = Hidden]

\* catch blocks that swallow the error and show nothing
CatchAlert_Silent(shown, containerId, error, unexpected) == shown

\* the alert the catch blocks of the loads, of update, delete and edit show:
\* "Error <status>: <message>" for a CustomError, the message of a
\* NetworkError, a fixed text for anything else
CatchAlert(shown, containerId, error, unexpected) ==
  showAlert(shown, containerId,
            IF error.name = "CustomError"
              THEN "Error " \o ToString(error.status) \o ": " \o error.message
            ELSE IF error.name = "NetworkError" THEN error.message
            ELSE unexpected,
            "danger")

\* a placeholder routine that empties the list it stands in for
showEmptyState_ClearsList(list) == Arr(<<>>)

\* showEmptyState(tableBodyId, message, colspan) writes the placeholder row
\* into the table body; the list behind the table is not touched
showEmptyState(list) == list

\* a request handed to the network
Request(api, method, resource) == [api |-> api, method |-> method, resource |-> resource]

\* both lists and both managers as one value
Snapshot ==
  [healthServicesData |-> healthServicesData,
   vendorSwitchesData |-> vendorSwitchesData,
   healthServicesPagination |-> healthServicesPagination,
   vendorSwitchesPagination |-> vendorSwitchesPagination]

\* an async function suspended at an await: the function, the click that
\* started it, and for the health service load the page awaited, the page
\* count and the records so far. Kept beside them for the record: the number
\* of requests the invocation has issued, the records each answered page
\* carried, and the lists and managers as they were when the load began
Task(op, inv, page, pages, allRecords, started) ==
  [op |-> op, inv |-> inv, page |-> page, totalPages |-> pages,
   allRecords |-> allRecords, sent |-> 1, received |-> <<>>, started |-> started]

RemoveAt(s, i) == SubSeq(s, 1, i - 1) \o SubSeq(s, i + 1, Len(s))

\* the errors the wrapper throws to its caller
ApiFailures ==
  {CustomError(500, "Internal Server Error", "Database unavailable"),
   NetworkError(NetworkErrorText)}

\* the values of the create and the edit form
FormRecords ==
  {[hospital_name |-> Str("City Clinic"), service_type |-> Str("general"),
    is_free |-> Str("1"), requirements |-> Str("")],
   [hospital_name |-> Str(""), service_type |-> Str(""),
    is_free |-> Str(""), requirements |-> Str(Repeat("r", MaxRequirementsLength + 1))]}

\* the values of the vendor ID field
VendorIds == {"7", "abc"}

\* the values of the sport and the country field
SportFilters == {"", "Soccer"}

CountryFilters == {"", "Spain"}

\* the arrays a list response carries
PageArrays == {Arr(Items(1)), Arr(Items(DEFAULT_PAGE_SIZE))}

\* pagination metadata of a list response; 0 stands for a missing member
PaginationMetas ==
  {Undefined} \cup [total_pages : {0, MaxPages}, last_page : {0, MaxPages}]

\* parsed bodies of GET /health_services?page=n: null, a bare list of
\* records, or an object { data, pagination }
HealthServicesBodies ==
  {Null} \cup PageArrays
    \cup [t : {"object"}, data : PageArrays \cup {Undefined}, pagination : PaginationMetas]

\* parsed bodies of GET /vendors/{id}/switches
VendorSwitchesBodies ==
  [t : {"object"}, switches : PageArrays \cup {Undefined}, data : PageArrays \cup {Undefined}]

\* response.json() builds fresh objects: the records of an array as received
\* by invocation inv for page
Fresh(array, inv, page) ==
  IF array = Undefined THEN Undefined
  ELSE Arr([k \in 1..Len(array.v) |-> [inv |-> inv, page |-> page, i |-> array.v[k]]])

\* a health services body as received by invocation inv for page
FreshBody(body, inv, page) ==
  IF body = Null THEN Null
  ELSE IF body.t = "array" THEN Fresh(body, inv, page)
  ELSE [body EXCEPT !.data = Fresh(body.data, inv, page)]

\* if (response && response.data && Array.isArray(response.data))
\*   allRecords = allRecords.concat(response.data)
ConcatData(allRecords, body) ==
  IF body = Null THEN allRecords
  ELSE IF body.t = "array" THEN allRecords
  ELSE IF body.data # Undefined THEN allRecords \o body.data.v
  ELSE allRecords

\* response.pagination.total_pages || response.pagination.last_page || 1
TotalPagesOf(body) ==
  IF body = Null THEN 1
  ELSE IF body.t = "array" THEN 1
  ELSE IF body.pagination = Undefined THEN 1
  ELSE IF body.pagination.total_pages # 0 THEN body.pagination.total_pages
  ELSE IF body.pagination.last_page # 0 THEN body.pagination.last_page
  ELSE 1

\* response.switches || response.data || response || []
SwitchesOf(body) ==
  IF body.switches # Undefined THEN body.switches
  ELSE IF body.data # Undefined THEN body.data
  ELSE body

\* the records a list response carries, in either documented shape
RecordsOf(body) ==
  IF body = Null THEN <<>>
  ELSE IF body.t = "array" THEN body.v
  ELSE IF body.data # Undefined THEN body.data.v
  ELSE <<>>

NoValidation == [isValid |-> TRUE, errors |-> <<>>]

Nothing == [name |-> "none"]

\* the controller as loaded: empty lists, fresh managers, no alert shown
CInit ==
  /\ healthServicesData = Arr(<<>>)
  /\ vendorSwitchesData = Arr(<<>>)
  /\ healthServicesPagination = Manager
  /\ vendorSwitchesPagination = Manager
  /\ alerts = [id \in AlertContainers |-> Hidden]
  /\ timers = [id \in AlertContainers |-> 0]
  /\ tasks = <<>>
  /\ clicks = 0
  /\ cOp = [name |-> "load", validation |-> NoValidation, issued |-> <<>>,
            task |-> Nothing, arrived |-> Nothing]
  /\ cPre = [healthServicesData |-> Arr(<<>>), vendorSwitchesData |-> Arr(<<>>),
             healthServicesPagination |-> Manager,
             vendorSwitchesPagination |-> Manager, tasks |-> <<>>]

\* bookkeeping shared by every controller step: the step, what its validator
\* said, the requests it issued, the task it ran and what that task was
\* resumed with
CObserve(name, validation, issued, task, arrived) ==
  /\ cOp' = [name |-> name, validation |-> validation, issued |-> issued,
             task |-> task, arrived |-> arrived]
  /\ cPre' = [healthServicesData |-> healthServicesData,
              vendorSwitchesData |-> vendorSwitchesData,
              healthServicesPagination |-> healthServicesPagination,
              vendorSwitchesPagination |-> vendorSwitchesPagination,
              tasks |-> tasks]

\* the user starts an operation
Click == clicks < MaxClicks /\ Len(tasks) < MaxInFlight /\ clicks' = clicks + 1

\* the lists and the managers stay as they are
ListsUnchanged ==
  UNCHANGED <<healthServicesData, vendorSwitchesData,
              healthServicesPagination, vendorSwitchesPagination>>

\* a handler that goes on to its request whatever the validator said
ValidationFails_Never(validation) == FALSE

\* if (!validation.isValid)
ValidationFails(validation) == ~validation.isValid

\* a load that writes its result only while no load started later is pending
WritesList_UnlessStale(task, pending) ==
  \A other \in DOMAIN pending :
    pending[other].op = "fetchHealthServices" => pending[other].inv <= task.inv

\* healthServicesData = allRecords runs whenever the page loop ends: no load
\* is cancelled and no result is compared with a later request
WritesList(task, pending) == TRUE

\* a load that shows the records of every page as it arrives
Publishes_EveryPage(page, pages) == TRUE

\* for (var page = 2; page <= totalPages; page++): the list is assigned
\* after the loop
Publishes(page, pages) == page >= pages

\* fetchHealthServices up to its first await, called by click inv on the
\* alerts `shown` in place of task `slot` (0: as a new task)
StartHealthServicesLoad(name, validation, shown, slot, inv) ==
  LET task == Task("fetchHealthServices", inv, 1, 1, <<>>, Snapshot)
  IN  /\ alerts' = hideAlert(shown, "healthServicesAlert")
      /\ tasks' = (IF slot = 0 THEN Append(tasks, task) ELSE [tasks EXCEPT ![slot] = task])
      /\ CObserve(name, validation,
                  <<Request("wellbeingApi", "GET", "/health_services?page=1")>>,
                  task, Nothing)
      /\ ListsUnchanged

\* fetchHealthServices(), from the page load, the filter form or the reset button
fetchHealthServices ==
  /\ Click
  /\ StartHealthServicesLoad("fetchHealthServices", NoValidation, alerts, 0, clicks + 1)
  /\ UNCHANGED timers

\* a page of the health service load arrives; a bare list announces
\* no further page, so the pages after the first come as objects or null
HealthServicesPageArrives(i, body) ==
  LET task       == tasks[i]
      response_  == FreshBody(body, task.inv, task.page)
      allRecords == ConcatData(task.allRecords, response_)
      pages      == IF task.page = 1 THEN TotalPagesOf(response_) ELSE task.totalPages
      resumed    == [task EXCEPT !.allRecords = allRecords, !.totalPages = pages,
                                 !.received = Append(@, RecordsOf(response_))]
      next       == [resumed EXCEPT !.page = @ + 1, !.sent = @ + 1]
  IN  /\ task.op = "fetchHealthServices"
      /\ task.page = 1 \/ body = Null \/ body.t = "object"
      /\ IF task.page < pages
           THEN /\ tasks' = [tasks EXCEPT ![i] = next]
                /\ CObserve("fetchHealthServices:page", NoValidation,
                            <<Request("wellbeingApi", "GET",
                                      "/health_services?page=" \o ToString(task.page + 1))>>,
                            next, Nothing)
           ELSE /\ tasks' = RemoveAt(tasks, i)
                /\ CObserve("fetchHealthServices:done", NoValidation, <<>>,
                            resumed, Nothing)
      /\ IF Publishes(task.page, pages) /\ WritesList(task, RemoveAt(tasks, i))
           THEN /\ healthServicesData' = Arr(allRecords)
                /\ healthServicesPagination' =
                     PaginateList(healthServicesPagination, Arr(allRecords))
           ELSE UNCHANGED <<healthServicesData, healthServicesPagination>>
      /\ UNCHANGED <<vendorSwitchesData, vendorSwitchesPagination, alerts, timers, clicks>>

\* a request of the health service load fails
HealthServicesLoadFails(i, error) ==
  /\ tasks[i].op = "fetchHealthServices"
  /\ tasks' = RemoveAt(tasks, i)
  /\ alerts' = CatchAlert(alerts, "healthServicesAlert", error,
                          "An unexpected error occurred while fetching health services.")
  /\ CObserve("fetchHealthServices:catch", NoValidation, <<>>, tasks[i], error)
  /\ healthServicesData' = showEmptyState(healthServicesData)
  /\ UNCHANGED <<vendorSwitchesData, healthServicesPagination, vendorSwitchesPagination>>
  /\ UNCHANGED <<timers, clicks>>

\* createHealthService() up to its first await
createHealthService(data) ==
  LET validation == validateHealthService(data)
      shown      == hideAlert(alerts, "createModalAlert")
      task       == Task("createHealthService", clicks + 1, 0, 0, <<>>, Nothing)
  IN  /\ Click
      /\ IF ValidationFails(validation)
           THEN /\ alerts' = showErrorList(shown, "createModalAlert", validation.errors)
                /\ CObserve("createHealthService", validation, <<>>, Nothing, Nothing)
                /\ UNCHANGED tasks
           ELSE /\ alerts' = shown
                /\ tasks' = Append(tasks, task)
                /\ CObserve("createHealthService", validation,
                            <<Request("wellbeingApi", "POST", "/health_services")>>,
                            Nothing, Nothing)
      /\ ListsUnchanged
      /\ UNCHANGED timers

\* the POST of createHealthService succeeds: success alert, then the refresh
CreateSucceeds(i) ==
  /\ tasks[i].op = "createHealthService"
  /\ StartHealthServicesLoad(
       "createHealthService:then", NoValidation,
       showAlert(alerts, "healthServicesAlert", "Health service created successfully!", "success"),
       i, tasks[i].inv)
  /\ timers' = [timers EXCEPT !["healthServicesAlert"] = @ + 1]
  /\ UNCHANGED clicks

\* the POST of createHealthService fails
CreateFails(i, error) ==
  /\ tasks[i].op = "createHealthService"
  /\ tasks' = RemoveAt(tasks, i)
  /\ alerts' = showAlert(alerts, "createModalAlert",
                         IF error.message # "" THEN error.message
                           ELSE "Failed to create health service.",
                         "danger")
  /\ CObserve("createHealthService:catch", NoValidation, <<>>, Nothing, error)
  /\ ListsUnchanged
  /\ UNCHANGED <<timers, clicks>>

\* updateHealthService() up to its first await
updateHealthService(data) ==
  LET validation == validateHealthService(data)
      shown      == hideAlert(alerts, "editModalAlert")
      task       == Task("updateHealthService", clicks + 1, 0, 0, <<>>, Nothing)
  IN  /\ Click
      /\ IF ValidationFails(validation)
           THEN /\ alerts' = showErrorList(shown, "editModalAlert", validation.errors)
                /\ CObserve("updateHealthService", validation, <<>>, Nothing, Nothing)
                /\ UNCHANGED tasks
           ELSE /\ alerts' = shown
                /\ tasks' = Append(tasks, task)
                /\ CObserve("updateHealthService", validation,
                            <<Request("wellbeingApi", "PUT", "/health_services")>>,
                            Nothing, Nothing)
      /\ ListsUnchanged
      /\ UNCHANGED timers

\* the PUT of updateHealthService succeeds: success alert, then the refresh
UpdateSucceeds(i) ==
  /\ tasks[i].op = "updateHealthService"
  /\ StartHealthServicesLoad(
       "updateHealthService:then", NoValidation,
       showAlert(alerts, "healthServicesAlert", "Health service updated successfully!", "success"),
       i, tasks[i].inv)
  /\ timers' = [timers EXCEPT !["healthServicesAlert"] = @ + 1]
  /\ UNCHANGED clicks

\* the PUT of updateHealthService fails
UpdateFails(i, error) ==
  /\ tasks[i].op = "updateHealthService"
  /\ tasks' = RemoveAt(tasks, i)
  /\ alerts' = CatchAlert(alerts, "editModalAlert", error,
                          "An unexpected error occurred while updating.")
  /\ CObserve("updateHealthService:catch", NoValidation, <<>>, Nothing, error)
  /\ ListsUnchanged
  /\ UNCHANGED <<timers, clicks>>

\* deleteHealthService() up to its first await; an invalid id is reported
\* with showAlert and no alert is hidden first
deleteHealthService(id) ==
  LET validation == validateId(Str(id), Str("Service ID"))
      task       == Task("deleteHealthService", clicks + 1, 0, 0, <<>>, Nothing)
  IN  /\ Click
      /\ IF ValidationFails(validation)
           THEN /\ alerts' = showAlert(alerts, "healthServicesAlert",
                                       validation.errors[1], "danger")
                /\ CObserve("deleteHealthService", validation, <<>>, Nothing, Nothing)
                /\ UNCHANGED tasks
           ELSE /\ UNCHANGED alerts
                /\ tasks' = Append(tasks, task)
                /\ CObserve("deleteHealthService", validation,
                            <<Request("wellbeingApi", "DELETE", "/health_services/" \o id)>>,
                            Nothing, Nothing)
      /\ ListsUnchanged
      /\ UNCHANGED timers

\* the DELETE settles: success alert and the refresh, or the catch block
DeleteSettles(i, result) ==
  /\ tasks[i].op = "deleteHealthService"
  /\ IF result.name = "ok"
       THEN /\ StartHealthServicesLoad(
                 "deleteHealthService:then", NoValidation,
                 showAlert(alerts, "healthServicesAlert",
                           "Health service deleted successfully!", "success"),
                 i, tasks[i].inv)
            /\ timers' = [timers EXCEPT !["healthServicesAlert"] = @ + 1]
       ELSE /\ tasks' = RemoveAt(tasks, i)
            /\ alerts' = CatchAlert(alerts, "healthServicesAlert", result,
                                    "An unexpected error occurred while deleting.")
            /\ CObserve("deleteHealthService:catch", NoValidation, <<>>, Nothing, result)
            /\ ListsUnchanged
            /\ UNCHANGED timers
  /\ UNCHANGED clicks

\* what GET /health_services/{id} comes to in viewHealthService and
\* openEditModal: a body holding the record, the body null (reading a
\* property of it throws a TypeError inside the try block), or an error
\* thrown by the wrapper
ServiceOutcomes ==
  {[name |-> "ok"],
   [name |-> "TypeError", message |-> "Cannot read properties of null"]}
    \cup ApiFailures

\* viewHealthService(id) up to its await
viewHealthService ==
  LET task == Task("viewHealthService", clicks + 1, 0, 0, <<>>, Nothing)
  IN  /\ Click
      /\ tasks' = Append(tasks, task)
      /\ CObserve("viewHealthService", NoValidation,
                  <<Request("wellbeingApi", "GET", "/health_services/{id}")>>, Nothing, Nothing)
      /\ ListsUnchanged
      /\ UNCHANGED <<alerts, timers>>

\* the GET of viewHealthService settles: the modal is filled and shown, or
\* the catch block reports; that block has no NetworkError branch
ViewSettles(i, result) ==
  /\ tasks[i].op = "viewHealthService"
  /\ tasks' = RemoveAt(tasks, i)
  /\ alerts' = (IF result.name = "ok" THEN alerts
                ELSE showAlert(alerts, "healthServicesAlert",
                       IF result.name = "CustomError"
                         THEN "Error " \o ToString(result.status) \o ": " \o result.message
                         ELSE "Failed to load health service details.",
                       "danger"))
  /\ CObserve(IF result.name = "ok" THEN "viewHealthService:done"
                ELSE "viewHealthService:catch",
              NoValidation, <<>>, Nothing, result)
  /\ ListsUnchanged
  /\ UNCHANGED <<timers, clicks>>

\* openEditModal(id) up to its await
openEditModal ==
  LET task == Task("openEditModal", clicks + 1, 0, 0, <<>>, Nothing)
  IN  /\ Click
      /\ alerts' = hideAlert(alerts, "editModalAlert")
      /\ tasks' = Append(tasks, task)
      /\ CObserve("openEditModal", NoValidation,
                  <<Request("wellbeingApi", "GET", "/health_services/{id}")>>, Nothing, Nothing)
      /\ ListsUnchanged
      /\ UNCHANGED timers

\* the GET of openEditModal settles: the form is filled and the modal shown,
\* or the catch block reports
EditSettles(i, result) ==
  /\ tasks[i].op = "openEditModal"
  /\ tasks' = RemoveAt(tasks, i)
  /\ alerts' = (IF result.name = "ok" THEN alerts
                ELSE CatchAlert(alerts, "healthServicesAlert", result,
                                "An unexpected error occurred while loading the service."))
  /\ CObserve(IF result.name = "ok" THEN "openEditModal:done" ELSE "openEditModal:catch",
              NoValidation, <<>>, Nothing, result)
  /\ ListsUnchanged
  /\ UNCHANGED <<timers, clicks>>

\* fetchVendorSwitches() up to its first await
fetchVendorSwitches(vendorId) ==
  LET validation == validateId(Str(vendorId), Str("Vendor ID"))
      shown      == hideAlert(alerts, "vendorSwitchesAlert")
      task       == Task("fetchVendorSwitches", clicks + 1, 1, 1, <<>>, Snapshot)
  IN  /\ Click
      /\ IF ValidationFails(validation)
           THEN /\ alerts' = showErrorList(shown, "vendorSwitchesAlert", validation.errors)
                /\ CObserve("fetchVendorSwitches", validation, <<>>, Nothing, Nothing)
                /\ UNCHANGED tasks
           ELSE /\ alerts' = shown
                /\ tasks' = Append(tasks, task)
                /\ CObserve("fetchVendorSwitches", validation,
                            <<Request("hw1Api", "GET", "/vendors/" \o vendorId \o "/switches")>>,
                            task, Nothing)
      /\ ListsUnchanged
      /\ UNCHANGED timers

\* the response of the vendor switch load arrives
VendorSwitchesArrive(i, body) ==
  LET response_ == [body EXCEPT !.switches = Fresh(body.switches, tasks[i].inv, 1),
                                   !.data = Fresh(body.data, tasks[i].inv, 1)]
      records   == IF response_.switches # Undefined THEN response_.switches.v
                   ELSE IF response_.data # Undefined THEN response_.data.v
                   ELSE <<>>
  IN  /\ tasks[i].op = "fetchVendorSwitches"
      /\ tasks' = RemoveAt(tasks, i)
      /\ vendorSwitchesData' = SwitchesOf(response_)
      /\ vendorSwitchesPagination' =
           PaginateList(vendorSwitchesPagination, SwitchesOf(response_))
      /\ CObserve("fetchVendorSwitches:done", NoValidation, <<>>,
                  [tasks[i] EXCEPT !.received = <<records>>], Nothing)
      /\ UNCHANGED <<healthServicesData, healthServicesPagination, alerts, timers, clicks>>

\* the request of the vendor switch load fails
VendorSwitchesFail(i, error) ==
  /\ tasks[i].op = "fetchVendorSwitches"
  /\ tasks' = RemoveAt(tasks, i)
  /\ alerts' = CatchAlert(alerts, "vendorSwitchesAlert", error,
                          "An unexpected error occurred while fetching switches.")
  /\ CObserve("fetchVendorSwitches:catch", NoValidation, <<>>, tasks[i], error)
  /\ vendorSwitchesData' = showEmptyState(vendorSwitchesData)
  /\ UNCHANGED <<healthServicesData, healthServicesPagination, vendorSwitchesPagination>>
  /\ UNCHANGED <<timers, clicks>>

\* fetchSportsDbLeagues() up to its first await
fetchSportsDbLeagues(sport, country) ==
  LET validation == validateSportsDbParams([sport |-> Str(sport), country |-> Str(country)])
      shown      == hideAlert(alerts, "sportsDbAlert")
      task       == Task("fetchSportsDbLeagues", clicks + 1, 0, 0, <<>>, Nothing)
  IN  /\ Click
      /\ IF ValidationFails(validation)
           THEN /\ alerts' = showErrorList(shown, "sportsDbAlert", validation.errors)
                /\ CObserve("fetchSportsDbLeagues", validation, <<>>, Nothing, Nothing)
                /\ UNCHANGED tasks
           ELSE /\ alerts' = shown
                /\ tasks' = Append(tasks, task)
                /\ CObserve("fetchSportsDbLeagues", validation,
                            <<Request("fetch", "GET", "search_all_leagues.php")>>,
                            Nothing, Nothing)
      /\ ListsUnchanged
      /\ UNCHANGED timers

\* what the direct fetch of the search comes to: a response whose body
\* parses, a response that is not ok (the handler builds the CustomError
\* itself), or a rejection
SearchOutcomes ==
  {[name |-> "ok"],
   CustomError(500, "Internal Server Error", "Failed to fetch from TheSportsDB"),
   [name |-> "TypeError", message |-> "Failed to fetch"]}

\* the search settles: results rendered, or the alert of its catch block
SearchSettles(i, result) ==
  /\ tasks[i].op = "fetchSportsDbLeagues"
  /\ tasks' = RemoveAt(tasks, i)
  /\ alerts' = (IF result.name = "ok" THEN alerts
                ELSE showAlert(alerts, "sportsDbAlert",
                       IF result.name = "CustomError"
                         THEN "Error " \o ToString(result.status) \o ": " \o result.message
                         ELSE "Failed to fetch leagues from TheSportsDB. Please try again.",
                       "danger"))
  /\ CObserve(IF result.name = "ok" THEN "fetchSportsDbLeagues:done"
                ELSE "fetchSportsDbLeagues:catch",
              NoValidation, <<>>, Nothing, result)
  /\ ListsUnchanged
  /\ UNCHANGED <<timers, clicks>>

\* an auto-hide timer armed by a success alert fires: hideAlert(containerId),
\* whatever the container shows by then
TimerFires(containerId) ==
  /\ timers[containerId] > 0
  /\ timers' = [timers EXCEPT ![containerId] = @ - 1]
  /\ alerts' = hideAlert(alerts, containerId)
  /\ CObserve("setTimeout", NoValidation, <<>>, Nothing,
              [name |-> "timeout", containerId |-> containerId, hid |-> alerts[containerId]])
  /\ ListsUnchanged
  /\ UNCHANGED <<tasks, clicks>>

(* --------------------- controller of public/js/app.js -------------------- *)

\* handleError(error, alertContainerId); `${error.status}` renders a number
\* in decimal and a string as it is
handleError(shown, error, alertContainerId) ==
  LET status == IF error.name # "CustomError" THEN ""
                ELSE IF error.status.t = "number" THEN ToString(error.status.v)
                ELSE error.status.v
  IN  IF error.name = "ValidationError"
        THEN showErrorList(shown, alertContainerId, error.errors)
      ELSE IF error.name = "CustomError"
        THEN showAlert(shown, alertContainerId,
                       "<i class=\"bi bi-exclamation-circle me-2\"></i>" \o error.message
                         \o " (Status: " \o status \o ")",
                       "danger")
      ELSE IF error.name = "NetworkError"
        THEN showAlert(shown, alertContainerId,
                       "<i class=\"bi bi-wifi-off me-2\"></i>" \o error.message, "danger")
      ELSE showAlert(shown, alertContainerId,
                     "<i class=\"bi bi-exclamation-circle me-2\"></i>"
                       \o "An unexpected error occurred: " \o error.message,
                     "danger")

\* the errors the wrapper throws to app.js, the status as the number
\* response.status holds
AppFailures ==
  {CustomError(Num(500), Str("Internal Server Error"), "Database unavailable"),
   NetworkError(NetworkErrorText)}

\* fetchHealthServices() of app.js up to its await
app_fetchHealthServices ==
  LET task == Task("app.fetchHealthServices", clicks + 1, 1, 1, <<>>, Snapshot)
  IN  /\ Click
      /\ alerts' = hideAlert(alerts, "healthServicesAlert")
      /\ tasks' = Append(tasks, task)
      /\ CObserve("app.fetchHealthServices", NoValidation,
                  <<Request("wellbeingApi", "GET", "/health_services")>>, task, Nothing)
      /\ ListsUnchanged
      /\ UNCHANGED timers

\* the GET of fetchHealthServices settles: the list is
\* response.data || response || [], or handleError on the error thrown by
\* the wrapper or by reading response.data of a null body
AppHealthServicesSettle(i, result) ==
  LET task      == tasks[i]
      response_ == FreshBody(result, task.inv, 1)
      list      == IF response_.t = "array" THEN response_
                   ELSE IF response_.data # Undefined THEN response_.data
                   ELSE response_
      error     == IF result = Null
                     THEN [name |-> "TypeError", message |-> "Cannot read properties of null"]
                     ELSE result
  IN  /\ task.op = "app.fetchHealthServices"
      /\ tasks' = RemoveAt(tasks, i)
      /\ IF result \in AppFailures \cup {Null}
           THEN /\ alerts' = handleError(alerts, error, "healthServicesAlert")
                /\ CObserve("app.fetchHealthServices:catch", NoValidation, <<>>, task, error)
                /\ UNCHANGED <<healthServicesData, healthServicesPagination>>
           ELSE /\ healthServicesData' = list
                /\ healthServicesPagination' = PaginateList(healthServicesPagination, list)
                /\ CObserve("app.fetchHealthServices:done", NoValidation, <<>>,
                            [task EXCEPT !.received = <<RecordsOf(response_)>>], Nothing)
                /\ UNCHANGED alerts
      /\ UNCHANGED <<vendorSwitchesData, vendorSwitchesPagination, timers, clicks>>

\* fetchVendorSwitches() of app.js up to its await
app_fetchVendorSwitches(vendorId) ==
  LET validation == validateId(Str(vendorId), Str("Vendor ID"))
      shown      == hideAlert(alerts, "vendorSwitchesAlert")
      task       == Task("app.fetchVendorSwitches", clicks + 1, 0, 0, <<>>, Snapshot)
  IN  /\ Click
      /\ IF ValidationFails(validation)
           THEN /\ alerts' = showErrorList(shown, "vendorSwitchesAlert", validation.errors)
                /\ CObserve("app.fetchVendorSwitches", validation, <<>>, Nothing, Nothing)
                /\ UNCHANGED tasks
           ELSE /\ alerts' = shown
                /\ tasks' = Append(tasks, task)
                /\ CObserve("app.fetchVendorSwitches", validation,
                            <<Request("hw1Api", "GET", "/vendors/" \o vendorId \o "/switches")>>,
                            Nothing, Nothing)
      /\ ListsUnchanged
      /\ UNCHANGED timers

\* the GET of fetchVendorSwitches settles: the list is
\* response.switches || response.data || [], totalItems is
\* response.meta?.total_count || vendorSwitchesData.length; or handleError
AppVendorSwitchesSettle(i, result) ==
  LET response_ == [result EXCEPT !.switches = Fresh(result.switches, tasks[i].inv, 1)]
      list      == IF response_.switches # Undefined THEN response_.switches
                   ELSE IF response_.data # Undefined THEN response_.data
                   ELSE Arr(<<>>)
      total     == IF response_.meta # Undefined /\ response_.meta.total_count # 0
                     THEN Num(response_.meta.total_count)
                     ELSE JsArrayLength(list)
  IN  /\ tasks[i].op = "app.fetchVendorSwitches"
      /\ tasks' = RemoveAt(tasks, i)
      /\ IF result \in AppFailures
           THEN /\ alerts' = handleError(alerts, result, "vendorSwitchesAlert")
                /\ CObserve("app.fetchVendorSwitches:catch", NoValidation, <<>>,
                            tasks[i], result)
                /\ UNCHANGED <<vendorSwitchesData, vendorSwitchesPagination>>
           ELSE /\ vendorSwitchesData' = list
                /\ vendorSwitchesPagination' =
                     [SetTotalItemsOf(vendorSwitchesPagination, total)
                        EXCEPT !.currentPage = 1]
                /\ CObserve("app.fetchVendorSwitches:done", NoValidation, <<>>,
                            [tasks[i] EXCEPT !.received = <<list.v>>], Nothing)
                /\ UNCHANGED alerts
      /\ UNCHANGED <<healthServicesData, healthServicesPagination, timers, clicks>>

\* fetchSportsDbLeagues() of app.js up to its await
app_fetchSportsDbLeagues(sport, country) ==
  LET validation == validateSportsDbParams([sport |-> Str(sport), country |-> Str(country)])
      shown      == hideAlert(alerts, "sportsDbAlert")
      task       == Task("app.fetchSportsDbLeagues", clicks + 1, 0, 0, <<>>, Nothing)
  IN  /\ Click
      /\ IF ValidationFails(validation)
           THEN /\ alerts' = showErrorList(shown, "sportsDbAlert", validation.errors)
                /\ CObserve("app.fetchSportsDbLeagues", validation, <<>>, Nothing, Nothing)
                /\ UNCHANGED tasks
           ELSE /\ alerts' = shown
                /\ tasks' = Append(tasks, task)
                /\ CObserve("app.fetchSportsDbLeagues", validation,
                            <<Request("fetch", "GET", "search_all_leagues.php")>>,
                            Nothing, Nothing)
      /\ ListsUnchanged
      /\ UNCHANGED timers

\* the direct fetch of the search settles: results rendered for a response
\* that is ok; for one that is not, the handler throws
\* new CustomError(`HTTP error! Status: ${response.status}`, response.status),
\* where the text is taken as status, the number as statusText, and
\* super(undefined) leaves the message empty; a rejected fetch throws a
\* TypeError; the catch block calls handleError
AppSearchSettles(i, result) ==
  LET error == IF result.name = "response"
                 THEN CustomError(Str("HTTP error! Status: " \o ToString(result.status)),
                                  Num(result.status), "")
                 ELSE result
  IN  /\ tasks[i].op = "app.fetchSportsDbLeagues"
      /\ tasks' = RemoveAt(tasks, i)
      /\ alerts' = (IF result.name = "response" /\ result.ok THEN alerts
                    ELSE handleError(alerts, error, "sportsDbAlert"))
      /\ CObserve(IF result.name = "response" /\ result.ok
                    THEN "app.fetchSportsDbLeagues:done"
                    ELSE "app.fetchSportsDbLeagues:catch",
                  NoValidation, <<>>, Nothing, error)
      /\ ListsUnchanged
      /\ UNCHANGED <<timers, clicks>>

(* ---------------------------- specifications ----------------------------- *)

\* a manager constructed with any of the options, the wrapper idle
PaginationInit == PInit /\ FPlain /\ VInit /\ CInit

PaginationNext ==
  \/ \E n \in 0..MaxItems : setTotalItems(n) /\ UNCHANGED <<fvars, vvars, cvars>>
  \/ \E n \in 0..MaxItems : getPageData(n) /\ UNCHANGED <<fvars, vvars, cvars>>
  \/ \E p \in -1..(MaxItems + 1) : goToPage(p) /\ UNCHANGED <<fvars, vvars, cvars>>
  \/ nextPage /\ UNCHANGED <<fvars, vvars, cvars>>
  \/ previousPage /\ UNCHANGED <<fvars, vvars, cvars>>
  \/ firstPage /\ UNCHANGED <<fvars, vvars, cvars>>
  \/ lastPage /\ UNCHANGED <<fvars, vvars, cvars>>
  \/ reset /\ UNCHANGED <<fvars, vvars, cvars>>

\* the pagination manager driven by arbitrary calls
PaginationSpec == PaginationInit /\ [][PaginationNext]_vars

\* the wrapper idle, the manager as constructed with default options
FetchInit == PaginationManager(0, "absent") /\ PFresh /\ FInit /\ VInit /\ CInit

FetchNext ==
  \/ \E verb \in Verbs, headers \in CallHeaderSets :
        SendRequest(verb, headers) /\ UNCHANGED <<pvars, vvars, cvars>>
  \/ \E resp \in Responses : FetchResolves(resp) /\ UNCHANGED <<pvars, vvars, cvars>>
  \/ \E error \in FetchRejections : FetchRejects(error) /\ UNCHANGED <<pvars, vvars, cvars>>
  \/ JsonSettles /\ UNCHANGED <<pvars, vvars, cvars>>
  \/ CallerResumes /\ UNCHANGED <<pvars, vvars, cvars>>

\* one FetchWrapper serving one call after the other
FetchSpec == FetchInit /\ [][FetchNext]_vars

\* one validator call on any of the inputs
ValidatorInit == PaginationManager(0, "absent") /\ PFresh /\ FPlain /\ VCall /\ CInit

ValidatorNext ==
  \/ ValidateHealthService /\ UNCHANGED <<pvars, fvars, cvars>>
  \/ ValidateId /\ UNCHANGED <<pvars, fvars, cvars>>
  \/ ValidateSportsDbParams /\ UNCHANGED <<pvars, fvars, cvars>>
  \/ SanitizeFilters /\ UNCHANGED <<pvars, fvars, cvars>>

ValidatorSpec == ValidatorInit /\ [][ValidatorNext]_vars

\* the controller as loaded, the manager and the wrapper of the other
\* specifications idle
ControllerInit == PaginationManager(0, "absent") /\ PFresh /\ FPlain /\ VInit /\ CInit

ControllerNext ==
  \/ fetchHealthServices /\ UNCHANGED <<pvars, fvars, vvars>>
  \/ \E i \in DOMAIN tasks, body \in HealthServicesBodies :
        HealthServicesPageArrives(i, body) /\ UNCHANGED <<pvars, fvars, vvars>>
  \/ \E i \in DOMAIN tasks, error \in ApiFailures :
        HealthServicesLoadFails(i, error) /\ UNCHANGED <<pvars, fvars, vvars>>
  \/ \E data \in FormRecords : createHealthService(data) /\ UNCHANGED <<pvars, fvars, vvars>>
  \/ \E i \in DOMAIN tasks : CreateSucceeds(i) /\ UNCHANGED <<pvars, fvars, vvars>>
  \/ \E i \in DOMAIN tasks, error \in ApiFailures :
        CreateFails(i, error) /\ UNCHANGED <<pvars, fvars, vvars>>
  \/ \E data \in FormRecords : updateHealthService(data) /\ UNCHANGED <<pvars, fvars, vvars>>
  \/ \E i \in DOMAIN tasks : UpdateSucceeds(i) /\ UNCHANGED <<pvars, fvars, vvars>>
  \/ \E i \in DOMAIN tasks, error \in ApiFailures :
        UpdateFails(i, error) /\ UNCHANGED <<pvars, fvars, vvars>>
  \/ \E id \in {"7", ""} : deleteHealthService(id) /\ UNCHANGED <<pvars, fvars, vvars>>
  \/ \E i \in DOMAIN tasks, result \in {[name |-> "ok"]} \cup ApiFailures :
        DeleteSettles(i, result) /\ UNCHANGED <<pvars, fvars, vvars>>
  \/ viewHealthService /\ UNCHANGED <<pvars, fvars, vvars>>
  \/ \E i \in DOMAIN tasks, result \in ServiceOutcomes :
        ViewSettles(i, result) /\ UNCHANGED <<pvars, fvars, vvars>>
  \/ openEditModal /\ UNCHANGED <<pvars, fvars, vvars>>
  \/ \E i \in DOMAIN tasks, result \in ServiceOutcomes :
        EditSettles(i, result) /\ UNCHANGED <<pvars, fvars, vvars>>
  \/ \E vendorId \in VendorIds : fetchVendorSwitches(vendorId) /\ UNCHANGED <<pvars, fvars, vvars>>
  \/ \E i \in DOMAIN tasks, body \in VendorSwitchesBodies :
        VendorSwitchesArrive(i, body) /\ UNCHANGED <<pvars, fvars, vvars>>
  \/ \E i \in DOMAIN tasks, error \in ApiFailures :
        VendorSwitchesFail(i, error) /\ UNCHANGED <<pvars, fvars, vvars>>
  \/ \E sport \in SportFilters, country \in CountryFilters :
        fetchSportsDbLeagues(sport, country) /\ UNCHANGED <<pvars, fvars, vvars>>
  \/ \E i \in DOMAIN tasks, result \in SearchOutcomes :
        SearchSettles(i, result) /\ UNCHANGED <<pvars, fvars, vvars>>
  \/ \E containerId \in AlertContainers :
        TimerFires(containerId) /\ UNCHANGED <<pvars, fvars, vvars>>

\* the page driven by the user, the network and the timers in any order
ControllerSpec == ControllerInit /\ [][ControllerNext]_vars

\* the controller of app.js as loaded
AppInit == PaginationManager(0, "absent") /\ PFresh /\ FPlain /\ VInit /\ CInit

AppNext ==
  \/ app_fetchHealthServices /\ UNCHANGED <<pvars, fvars, vvars>>
  \/ \E i \in DOMAIN tasks, result \in HealthServicesBodies \cup AppFailures :
        AppHealthServicesSettle(i, result) /\ UNCHANGED <<pvars, fvars, vvars>>
  \/ \E vendorId \in VendorIds :
        app_fetchVendorSwitches(vendorId) /\ UNCHANGED <<pvars, fvars, vvars>>
  \/ \E i \in DOMAIN tasks,
        result \in [t : {"object"}, switches : PageArrays \cup {Undefined},
                    data : {Undefined},
                    meta : {Undefined, [total_count |-> 0],
                            [total_count |-> DEFAULT_PAGE_SIZE + 1]}] \cup AppFailures :
        AppVendorSwitchesSettle(i, result) /\ UNCHANGED <<pvars, fvars, vvars>>
  \/ \E sport \in SportFilters, country \in CountryFilters :
        app_fetchSportsDbLeagues(sport, country) /\ UNCHANGED <<pvars, fvars, vvars>>
  \/ \E i \in DOMAIN tasks,
        result \in {[name |-> "response", ok |-> TRUE, status |-> 200],
                    [name |-> "response", ok |-> FALSE, status |-> 500],
                    [name |-> "TypeError", message |-> "Failed to fetch"]} :
        AppSearchSettles(i, result) /\ UNCHANGED <<pvars, fvars, vvars>>

\* the list loads and the search of app.js driven by the user and the network
AppSpec == AppInit /\ [][AppNext]_vars

(* ----------------------- claims: PaginationManager ---------------------- *)

NavOps == {"goToPage", "nextPage", "previousPage", "firstPage", "lastPage"}

WrapperOps == {"nextPage", "previousPage", "firstPage", "lastPage"}

\* the last operation left every field as it was and did not call back
Untouched == Fields = pre /\ cbLog = <<>>

\* C1: after any sequence of operations 1 <= currentPage <= max(totalPages, 1)
C1_PageInBounds ==
  1 <= currentPage /\ currentPage <= Max(totalPages, 1)

\* C2: setTotalItems(n) leaves totalItems = n, totalPages = ceil(n / pageSize),
\* puts currentPage back to 1 whenever the previous currentPage exceeds
\* max(totalPages, 1) (also for n = 0), otherwise keeps it, and never calls back
C2_SetTotalItems ==
  lastOp.name = "setTotalItems" =>
    /\ totalItems = lastOp.arg
    /\ totalPages * pageSize >= lastOp.arg
    /\ (totalPages - 1) * pageSize < lastOp.arg
    /\ currentPage = (IF pre.currentPage > Max(totalPages, 1) THEN 1 ELSE pre.currentPage)
    /\ pageSize = pre.pageSize
    /\ cbLog = <<>>

\* C3: goToPage(page) is a no-op without callback when page < 1 or
\* page > totalPages; otherwise currentPage = page and the callback is invoked
\* exactly once with the new page
C3_GoToPage ==
  lastOp.name = "goToPage" =>
    IF lastOp.arg < 1 \/ lastOp.arg > pre.totalPages
      THEN Untouched
      ELSE /\ currentPage = lastOp.arg
           /\ cbLog = <<lastOp.arg>>
           /\ totalItems = pre.totalItems
           /\ totalPages = pre.totalPages

C3_Witness ==
  /\ lastOp = [name |-> "goToPage", arg |-> 3]
  /\ pre.currentPage = 1
  /\ currentPage = 3
  /\ cbLog = <<3>>

\* C4 as stated: a navigation call that leaves currentPage at its previous
\* value invokes the callback zero times
C4_CallbackOnlyOnChange ==
  (lastOp.name \in NavOps /\ currentPage = pre.currentPage) => cbLog = <<>>

\* C4 amended: nextPage, previousPage, firstPage and lastPage invoke the
\* callback only when they change currentPage; goToPage(page) invokes it exactly
\* when 1 <= page <= totalPages, also when page is already the current page
C4_CallbackOnlyOnChangeAmended ==
  /\ (lastOp.name \in WrapperOps /\ currentPage = pre.currentPage) => cbLog = <<>>
  /\ lastOp.name = "goToPage" =>
       (cbLog # <<>> <=> (1 <= lastOp.arg /\ lastOp.arg <= pre.totalPages))
  /\ (lastOp.name \in NavOps /\ cbLog # <<>>) => cbLog = <<currentPage>>

C4_Witness ==
  /\ lastOp.name = "goToPage"
  /\ lastOp.arg = pre.currentPage
  /\ currentPage = pre.currentPage
  /\ cbLog = <<currentPage>>

\* C5: nextPage, previousPage, firstPage and lastPage never set currentPage
\* outside [1, totalPages], and leave the manager untouched when the target page
\* does not exist (next on the last page, previous on page 1, all four when
\* totalPages = 0)
C5_WrapperBounds ==
  lastOp.name \in WrapperOps =>
    /\ (currentPage # pre.currentPage \/ cbLog # <<>>) =>
          (1 <= currentPage /\ currentPage <= totalPages)
    /\ pre.totalPages = 0 => Untouched
    /\ (lastOp.name = "nextPage" /\ pre.currentPage = pre.totalPages) => Untouched
    /\ (lastOp.name = "previousPage" /\ pre.currentPage = 1) => Untouched

\* C6: getPageData(items) returns the contiguous run of items at the indices
\* (currentPage-1)*pageSize .. min(currentPage*pageSize, len) - 1 in order and
\* changes no field; 25 items on page 3 of size 10 give the items 20..24; on
\* every page 1..totalPages with totalItems = len the run has 1..pageSize items
C6_GetPageData ==
  lastOp.name = "getPageData" =>
    LET len == lastOp.arg
        lo  == Max((currentPage - 1) * pageSize, 0)
        hi  == Min(currentPage * pageSize, len)
    IN  /\ Untouched
        /\ Len(pageData) = Max(hi - lo, 0)
        /\ \A i \in 1..Len(pageData) : pageData[i] = Items(len)[lo + i]
        /\ (len = 25 /\ pageSize = 10 /\ currentPage = 3) =>
              pageData = <<20, 21, 22, 23, 24>>
        /\ (totalItems = len /\ 1 <= currentPage /\ currentPage <= totalPages) =>
              (1 <= Len(pageData) /\ Len(pageData) <= pageSize)

C6_Witness ==
  /\ lastOp = [name |-> "getPageData", arg |-> 25]
  /\ pageSize = 10
  /\ totalItems = 25
  /\ currentPage = 3
  /\ Len(pageData) = 5

\* C7: reset() yields currentPage = 1, totalItems = 0, totalPages = 0, keeps
\* pageSize and the registered callback, does not call back, and is idempotent
C7_Reset ==
  lastOp.name = "reset" =>
    /\ currentPage = 1 /\ totalItems = 0 /\ totalPages = 0
    /\ pageSize = pre.pageSize
    /\ onPageChange = pre.onPageChange
    /\ cbLog = <<>>
    /\ (pre.currentPage = 1 /\ pre.totalItems = 0 /\ pre.totalPages = 0) => Fields = pre

C7_Witness ==
  /\ lastOp.name = "reset"
  /\ pre.currentPage > 1 /\ pre.totalItems > 0 /\ pre.totalPages > 1
  /\ currentPage = 1 /\ totalItems = 0 /\ totalPages = 0

(* -------------------------- claims: FetchWrapper ------------------------- *)

\* a Response has arrived and sendRequest has run to its end
Answered == pc = "settled" /\ response # NoResponse

\* C8: a response with status in [200,299] and a JSON body makes sendRequest,
\* however it was entered, return exactly the parsed body and raise nothing
C8_SuccessReturnsBody ==
  (/\ Answered
   /\ 200 <= response.status /\ response.status <= 299
   /\ JsonParse(response.body).ok) =>
     /\ via \in Verbs
     /\ outcome = [kind |-> "returned", value |-> JsonParse(response.body).value]

C8_Witness ==
  /\ Answered
  /\ via = "post"
  /\ response.status = 299
  /\ response.body = "{\"id\":\"7\"}"
  /\ outcome.kind = "returned"
  /\ outcome.value.props["id"] = "7"

\* C9: a response with status outside [200,299] makes sendRequest raise a
\* CustomError with that status and status text whose message is the body's
\* non-empty message field, else its non-empty error field, else
\* "HTTP Error: <status> <statusText>" (also when the body does not parse)
C9_StatusError ==
  (Answered /\ ~(200 <= response.status /\ response.status <= 299)) =>
    LET parsed  == JsonParse(response.body)
        has(k)  == /\ parsed.ok
                   /\ parsed.value.type = "object"
                   /\ k \in DOMAIN parsed.value.props
                   /\ parsed.value.props[k] # ""
        generic == "HTTP Error: " \o ToString(response.status) \o " " \o response.statusText
    IN  /\ outcome.kind = "thrown"
        /\ outcome.error.name = "CustomError"
        /\ outcome.error.status = response.status
        /\ outcome.error.statusText = response.statusText
        /\ outcome.error.message =
             (IF has("message") THEN parsed.value.props["message"]
              ELSE IF has("error") THEN parsed.value.props["error"]
              ELSE generic)

C9_Witness ==
  /\ Answered
  /\ response.status = 404
  /\ response.body = "{\"message\":\"m\",\"error\":\"e\"}"
  /\ outcome.kind = "thrown"
  /\ outcome.error.name = "CustomError"
  /\ outcome.error.message = "m"

\* C10: a CustomError raised inside sendRequest reaches the caller as it was
\* raised: the catch block neither converts nor wraps it
C10_StatusErrorPassesThrough ==
  (pc = "settled" /\ thrown.name = "CustomError") =>
    outcome = [kind |-> "thrown", error |-> thrown]

C10_Witness ==
  /\ pc = "settled"
  /\ thrown = CustomError(500, "", "HTTP Error: 500 ")
  /\ outcome.kind = "thrown"
  /\ outcome.error = thrown

\* fetch rejected and sendRequest has run to its end
Rejected == pc = "settled" /\ response = NoResponse

\* C11: whenever fetch rejects, sendRequest raises a NetworkError with the one
\* fixed text, whatever the rejection was
C11_RejectionFixedText ==
  Rejected => outcome = [kind |-> "thrown", error |-> NetworkError(NetworkErrorText)]

\* C12: sendRequest raises a NetworkError only when no response was received;
\* once a response with some status has arrived the outcome is the returned
\* body or a CustomError
C12_NetworkErrorOnlyWithoutResponse ==
  (pc = "settled" /\ outcome.kind = "thrown" /\ outcome.error.name = "NetworkError") =>
    response = NoResponse

\* C13: every invocation of sendRequest issues exactly one fetch call,
\* whatever its outcome
C13_OneRequestPerCall ==
  /\ pc = "idle" => fetchCalls = 0
  /\ pc \in {"awaitFetch", "awaitJson", "settled"} => fetchCalls = 1

C13_Witness ==
  /\ pc = "settled"
  /\ outcome.kind = "thrown"
  /\ outcome.error.name = "NetworkError"
  /\ fetchCalls = 1

\* C14: the headers sent are the per-key merge of the built-in defaults, the
\* instance's default headers and the per-call headers, in increasing
\* precedence; keys not overridden keep their lower-level value
C14_HeaderMerge ==
  pc # "idle" =>
    /\ DOMAIN config.headers =
         {"Content-Type", "Accept"} \cup DOMAIN defaultHeaders \cup DOMAIN optHeaders
    /\ \A k \in DOMAIN config.headers :
         config.headers[k] =
           (IF k \in DOMAIN optHeaders THEN optHeaders[k]
            ELSE IF k \in DOMAIN defaultHeaders THEN defaultHeaders[k]
            ELSE "application/json")

C14_Witness ==
  /\ pc = "awaitFetch"
  /\ defaultHeaders = ("Accept" :> "text/html") @@ ("X-Client" :> "a")
  /\ optHeaders = ("Content-Type" :> "text/plain") @@ ("X-Client" :> "b")
  /\ config.headers["Accept"] = "text/html"
  /\ config.headers["X-Client"] = "b"
  /\ config.headers["Content-Type"] = "text/plain"

(* --------------------------- claims: Validators -------------------------- *)

\* a record every field of which is valid
ValidRecord ==
  [hospital_name |-> Str("St. Luke's"), service_type |-> Str("general"),
   is_free |-> Num(1), requirements |-> Undefined]

HealthServiceFields == {"hospital_name", "service_type", "is_free", "requirements"}

\* what the validator reports for one field's value put into a valid record
FieldErrors(data, field) ==
  validateHealthService([ValidRecord EXCEPT ![field] = data[field]]).errors

\* C15: validateHealthService is not fail-fast: the error list is, in field
\* order, one error for each of the four fields that is in error on its own;
\* isValid holds exactly when the list is empty; a record with k fields in
\* error yields k errors (name "AB" alone: one error; a valid record: none)
C15_NotFailFast ==
  vOp = "validateHealthService" =>
    LET data == vArg.arg
    IN  /\ vRes.errors = FieldErrors(data, "hospital_name")
                           \o FieldErrors(data, "service_type")
                           \o FieldErrors(data, "is_free")
                           \o FieldErrors(data, "requirements")
        /\ \A f \in HealthServiceFields : Len(FieldErrors(data, f)) <= 1
        /\ Len(vRes.errors) =
             Cardinality({f \in HealthServiceFields : FieldErrors(data, f) # <<>>})
        /\ vRes.isValid <=> vRes.errors = <<>>
        /\ data = ValidRecord => vRes.errors = <<>>
        /\ data = [ValidRecord EXCEPT !.hospital_name = Str("AB")] =>
             vRes.errors = <<"Hospital name must be at least 3 characters long.">>
        /\ (data.hospital_name = Str("St. Luke's") /\ data.service_type = Str("xyz")) =>
             \E i \in 1..Len(vRes.errors) :
                StringIncludes(vRes.errors[i], "Invalid service type")

C15_Witness ==
  /\ vOp = "validateHealthService"
  /\ vArg.arg.hospital_name = Str("AB")
  /\ vArg.arg.service_type = Str("xyz")
  /\ vArg.arg.is_free = Num(2)
  /\ vArg.arg.requirements = Str(Repeat("r", 501))
  /\ Len(vRes.errors) = 4
  /\ ~vRes.isValid

\* the list holds an error about the hospital name
HasNameError(errors) ==
  \E i \in 1..Len(errors) : StringIncludes(errors[i], "Hospital name")

\* C16: the hospital name is accepted exactly when its length after trimming
\* surrounding white space is between 3 and 100
C16_TrimmedNameLength ==
  (vOp = "validateHealthService" /\ vArg.arg.hospital_name.t = "string") =>
    LET trimmed == Trim(vArg.arg.hospital_name.v)
    IN  ~HasNameError(vRes.errors) <=> (3 <= Len(trimmed) /\ Len(trimmed) <= 100)

\* a string of decimal digits
IsDecimalString(s) ==
  s # "" /\ \A i \in 1..Len(s) : SubSeq(s, i, i) \in Digits

\* a positive integer given as a number or as its decimal string
IsPositiveInteger(id) ==
  \/ id.t = "number" /\ id.v > 0
  \/ id.t = "string" /\ IsDecimalString(id.v) /\ ParseInt(id).v > 0

\* C17: validateId accepts exactly the positive integers (numbers or decimal
\* strings); anything else gives exactly one error naming the field
C17_PositiveIntegerId ==
  vOp = "validateId" =>
    /\ vRes.isValid <=> IsPositiveInteger(vArg.arg.id)
    /\ vRes.isValid => vRes.errors = <<>>
    /\ ~vRes.isValid =>
         /\ Len(vRes.errors) = 1
         /\ StringIncludes(vRes.errors[1],
                           IF vArg.arg.fieldName = Undefined THEN "ID"
                           ELSE vArg.arg.fieldName.v)

\* res is orig without the white space at its two ends
IsTrimOf(res, orig) ==
  \E i \in 1..(Len(orig) + 1), j \in 0..Len(orig) :
     /\ i <= j + 1
     /\ res = (IF i > j THEN "" ELSE SubSeq(orig, i, j))
     /\ \A m \in 1..(i - 1) : IsWhiteSpace(SubSeq(orig, m, m))
     /\ \A m \in (j + 1)..Len(orig) : IsWhiteSpace(SubSeq(orig, m, m))
     /\ res = "" \/ (/\ ~IsWhiteSpace(SubSeq(res, 1, 1))
                     /\ ~IsWhiteSpace(SubSeq(res, Len(res), Len(res))))

C19_NoEmptyValue ==
  vOp = "sanitizeFilters" => \A k \in DOMAIN vRes : vRes[k] # ""

(* -------------------------- claims: controller -------------------------- *)

\* the operations that validate their input, and the alert of each
ValidatedOps ==
  [createHealthService |-> "createModalAlert",
   updateHealthService |-> "editModalAlert",
   fetchVendorSwitches |-> "vendorSwitchesAlert",
   fetchSportsDbLeagues |-> "sportsDbAlert"]

\* C20: when create, update, the vendor switch load or the external search
\* finds its input invalid, the step shows the validator's error list in the
\* operation's alert, issues no network request, leaves nothing awaited, and
\* leaves both in-memory lists and both pagination managers as they were.
C20_InvalidInputStops ==
  (cOp.name \in DOMAIN ValidatedOps /\ ~cOp.validation.isValid) =>
    /\ alerts[ValidatedOps[cOp.name]] = [kind |-> "errors", errors |-> cOp.validation.errors]
    /\ cOp.validation.errors # <<>>
    /\ cOp.issued = <<>>
    /\ tasks = cPre.tasks
    /\ healthServicesData = cPre.healthServicesData
    /\ vendorSwitchesData = cPre.vendorSwitchesData
    /\ healthServicesPagination = cPre.healthServicesPagination
    /\ vendorSwitchesPagination = cPre.vendorSwitchesPagination

\* an invalid vendor ID entered after two pages of health services were loaded
C20_Witness ==
  /\ cOp.name = "fetchVendorSwitches"
  /\ ~cOp.validation.isValid
  /\ alerts["vendorSwitchesAlert"].kind = "errors"
  /\ healthServicesPagination.totalPages = Num(2)

(* ----------------------------- claims: loads ---------------------------- *)

RECURSIVE Flatten(_)
\* the concatenation of a sequence of arrays
Flatten(arrays) ==
  IF arrays = <<>> THEN <<>> ELSE Head(arrays) \o Flatten(Tail(arrays))

\* the pending health service loads
PendingLoads == {i \in DOMAIN tasks : tasks[i].op = "fetchHealthServices"}

\* C22: no load is cancelled or checked for staleness. Whenever a health
\* service or vendor switch load completes, whatever was started or has
\* completed since it began, it leaves the list pending tasks alone and
\* overwrites the shared list and its manager with its own result; so the
\* state after two overlapping loads can be that of the load issued first.
C22_StaleLoadOverwrites ==
  /\ cOp.name = "fetchHealthServices:done" =>
        /\ healthServicesData = Arr(cOp.task.allRecords)
        /\ healthServicesPagination =
             PaginateList(cPre.healthServicesPagination, Arr(cOp.task.allRecords))
        /\ Len(tasks) = Len(cPre.tasks) - 1
  /\ cOp.name = "fetchVendorSwitches:done" =>
        /\ vendorSwitchesData.t = "array" => vendorSwitchesData.v = cOp.task.received[1]
        /\ vendorSwitchesPagination =
             PaginateList(cPre.vendorSwitchesPagination, vendorSwitchesData)
        /\ Len(tasks) = Len(cPre.tasks) - 1

\* the load issued first completes after the load issued second has written
\* its records: the list ends up holding the records of the first
C22_Witness ==
  /\ cOp.name = "fetchHealthServices:done"
  /\ cOp.task.inv = 1
  /\ tasks = <<>>
  /\ Len(cPre.healthServicesData.v) > 0
  /\ cPre.healthServicesData.v[1].inv = 2
  /\ Len(healthServicesData.v) > 0
  /\ healthServicesData.v[1].inv = 1

\* C24: the health service load takes both documented response shapes: when
\* it completes, the list holds every record its responses carried, whether
\* a response was a bare list of records or an object with a data array.
C24_BothShapesAccepted ==
  cOp.name = "fetchHealthServices:done" =>
    healthServicesData = Arr(Flatten(cOp.task.received))

\* C26: within one invocation of the health service load the requests go
\* out in the order 1, 2, ..., N, N being the page count the first response
\* reported (1 if it reported none); request k + 1 is issued by the step
\* that receives the response to request k, so the invocation never has two
\* requests in flight; when every request succeeded the invocation ends
\* after exactly N requests and the list is the concatenation of the
\* records of the pages in page order.
C26_SequentialPages ==
  /\ \A i \in PendingLoads :
        /\ tasks[i].sent = Len(tasks[i].received) + 1
        /\ tasks[i].page = tasks[i].sent
        /\ tasks[i].sent <= tasks[i].totalPages
  /\ cOp.name = "fetchHealthServices:page" =>
        /\ cOp.task.sent = Len(cOp.task.received) + 1
        /\ cOp.issued = <<Request("wellbeingApi", "GET",
                                  "/health_services?page=" \o ToString(cOp.task.sent))>>
  /\ cOp.name = "fetchHealthServices:done" =>
        /\ cOp.issued = <<>>
        /\ cOp.task.sent = cOp.task.totalPages
        /\ Len(cOp.task.received) = cOp.task.totalPages
        /\ \A k \in DOMAIN cOp.task.received :
              \A r \in DOMAIN cOp.task.received[k] : cOp.task.received[k][r].page = k
        /\ healthServicesData = Arr(Flatten(cOp.task.received))

\* C27: when a request of a list load fails, the lists and the managers are
\* exactly as they were when that load began.
C27_FailedLoadFrame ==
  cOp.name \in {"fetchHealthServices:catch", "fetchVendorSwitches:catch"} =>
    Snapshot = cOp.task.started

\* C27 as amended: no step of a list load that fails, neither a page of it
\* arriving nor the failure itself, changes a list or a manager; what another
\* load wrote while this one was pending stays.
C27_FailedLoadFrameAmended ==
  cOp.name \in {"fetchHealthServices:page", "fetchHealthServices:catch",
                "fetchVendorSwitches:catch"} =>
    /\ healthServicesData = cPre.healthServicesData
    /\ vendorSwitchesData = cPre.vendorSwitchesData
    /\ healthServicesPagination = cPre.healthServicesPagination
    /\ vendorSwitchesPagination = cPre.vendorSwitchesPagination

\* the second page of a load fails after an overlapping load filled the list
C27_Witness ==
  /\ cOp.name = "fetchHealthServices:catch"
  /\ cOp.task.page = 2
  /\ Len(cOp.task.allRecords) > 0
  /\ Len(healthServicesData.v) > 0
  /\ Snapshot # cOp.task.started
  /\ alerts["healthServicesAlert"].kind = "alert"

CatchContainer(name) ==
  IF name = "createHealthService:catch" THEN "createModalAlert"
  ELSE IF name = "updateHealthService:catch" THEN "editModalAlert"
  ELSE IF name = "fetchVendorSwitches:catch" THEN "vendorSwitchesAlert"
  ELSE IF name = "fetchSportsDbLeagues:catch" THEN "sportsDbAlert"
  ELSE "healthServicesAlert"

CatchSteps ==
  {"fetchHealthServices:catch", "createHealthService:catch", "updateHealthService:catch",
   "deleteHealthService:catch", "viewHealthService:catch", "openEditModal:catch",
   "fetchVendorSwitches:catch", "fetchSportsDbLeagues:catch"}

\* C23: whenever the request of a controller operation (list load, create,
\* update, delete, view, edit-open, vendor switch load, external search)
\* fails with a CustomError or a NetworkError, the operation's catch block
\* takes it: a danger alert with a non-empty message is shown in the
\* operation's container, the failed operation is no longer pending while
\* the other pending operations stay, and further operations can be started.
C23_FailuresCaught ==
  (cOp.name \in CatchSteps /\ cOp.arrived.name \in {"CustomError", "NetworkError"}) =>
    /\ alerts[CatchContainer(cOp.name)].kind = "alert"
    /\ alerts[CatchContainer(cOp.name)].type = "danger"
    /\ alerts[CatchContainer(cOp.name)].message # ""
    /\ Len(tasks) = Len(cPre.tasks) - 1
    /\ \A i \in DOMAIN tasks : \E j \in DOMAIN cPre.tasks : tasks[i] = cPre.tasks[j]
    /\ clicks < MaxClicks => (ENABLED fetchHealthServices /\ ENABLED viewHealthService)

\* the DELETE of the second click fails while the load of the first click is
\* still waiting for its second page
C23_Witness ==
  /\ cOp.name = "deleteHealthService:catch"
  /\ cOp.arrived.name = "NetworkError"
  /\ alerts["healthServicesAlert"].kind = "alert"
  /\ Len(tasks) = 1
  /\ tasks[1].op = "fetchHealthServices"
  /\ tasks[1].page = 2

\* C29: an error shown in an alert container stays until a later operation
\* hides or replaces it: the auto-hide timer that an earlier success alert
\* armed on the container never removes an error alert or an error list.
C29_TimerSparesErrors ==
  cOp.name = "setTimeout" =>
    /\ cOp.arrived.hid.kind # "errors"
    /\ cOp.arrived.hid.kind = "alert" => cOp.arrived.hid.type # "danger"

\* C30: when a create, update or delete request has succeeded, the success
\* message is displayed in the health services alert after the handler's
\* step that wrote it and started the refresh.
C30_SuccessStaysShown ==
  cOp.name \in {"createHealthService:then", "updateHealthService:then",
                "deleteHealthService:then"} =>
    /\ alerts["healthServicesAlert"].kind = "alert"
    /\ alerts["healthServicesAlert"].type = "success"

(* ------------------------- claims: app.js ------------------------------- *)

\* the container shows `text` for the markup `html` written to its
\* innerHTML: an icon element, which renders no text, followed by the text
Displays(html, text) ==
  \E class \in {"bi-exclamation-circle", "bi-wifi-off", "bi-check-circle"} :
    html = "<i class=\"bi " \o class \o " me-2\"></i>" \o text

\* the alert container handleError is called with by each catch block
AppCatchContainer(name) ==
  IF name = "app.fetchVendorSwitches:catch" THEN "vendorSwitchesAlert"
  ELSE IF name = "app.fetchSportsDbLeagues:catch" THEN "sportsDbAlert"
  ELSE "healthServicesAlert"

\* the catch blocks that call handleError
HandleErrorSteps ==
  {"app.fetchHealthServices:catch", "app.fetchVendorSwitches:catch",
   "app.fetchSportsDbLeagues:catch"}

\* C21: for every error that reaches handleError the text displayed is
\* determined by the error's class: a CustomError, thrown by the wrapper or
\* built by the search for a response that is not ok, shows its message
\* followed by "(Status: <numeric HTTP status>)", a NetworkError shows its
\* message as it is, a ValidationError shows its error list, and any other
\* error shows the fallback text.
C21_ErrorRouting ==
  cOp.name \in HandleErrorSteps =>
    LET error == cOp.arrived
        shown == alerts[AppCatchContainer(cOp.name)]
    IN  IF error.name = "ValidationError"
          THEN shown = [kind |-> "errors", errors |-> error.errors]
          ELSE /\ shown.kind = "alert"
               /\ shown.type = "danger"
               /\ IF error.name = "CustomError"
                    THEN /\ error.status.t = "number"
                         /\ Displays(shown.message,
                                     error.message \o " (Status: "
                                       \o ToString(error.status.v) \o ")")
                  ELSE IF error.name = "NetworkError"
                    THEN Displays(shown.message, error.message)
                  ELSE Displays(shown.message,
                                "An unexpected error occurred: " \o error.message)

\* C25: after a list load (health services or vendor switches) has completed
\* successfully, the list holds the records received, totalItems is the
\* length of the list, totalPages is ceil(length / pageSize) and currentPage
\* is 1, so that every page from 1 to totalPages shows at least one record.
C25_LoadedListPaginated ==
  /\ cOp.name = "app.fetchHealthServices:done" =>
        /\ healthServicesData = Arr(cOp.task.received[1])
        /\ healthServicesPagination.totalItems = Num(Len(healthServicesData.v))
        /\ healthServicesPagination.totalPages =
             Num(MathCeilDiv(Len(healthServicesData.v), healthServicesPagination.pageSize))
        /\ healthServicesPagination.currentPage = 1
        /\ \A page \in 1..healthServicesPagination.totalPages.v :
              (page - 1) * healthServicesPagination.pageSize < Len(healthServicesData.v)
  /\ cOp.name = "app.fetchVendorSwitches:done" =>
        /\ vendorSwitchesData = Arr(cOp.task.received[1])
        /\ vendorSwitchesPagination.totalItems = Num(Len(vendorSwitchesData.v))
        /\ vendorSwitchesPagination.totalPages =
             Num(MathCeilDiv(Len(vendorSwitchesData.v), vendorSwitchesPagination.pageSize))
        /\ vendorSwitchesPagination.currentPage = 1
        /\ \A page \in 1..vendorSwitchesPagination.totalPages.v :
              (page - 1) * vendorSwitchesPagination.pageSize < Len(vendorSwitchesData.v)

====
